---- MODULE Spec2Model ----
(***************************************************************************)
(* Messana integration: the device API client (api.py) and the polling     *)
(* aggregation coordinator (coordinator.py).                               *)
(*                                                                         *)
(* One refresh cycle is one run of MessanaCoordinator._async_update_data.  *)
(* Every `await self.client.get_*` is a suspension point; the model has    *)
(* one action per such point, taken when the awaited call returns or       *)
(* raises.  Code that runs without suspension after the call (loop         *)
(* bookkeeping, building the returned dict, the assignment of the result   *)
(* to coordinator.data) belongs to the same action.                        *)
(*                                                                         *)
(* Numbers of JSON bodies are kept in tenths (41.2 is 412, -3276.8 is      *)
(* -32768) together with a flag telling a JSON float from a JSON integer.  *)
(***************************************************************************)
EXTENDS Integers, Sequences, FiniteSets, TLC

VARIABLES
    configured,            \* entry.options[zone_count_override]: <<>> absent, <<n>> set
    zone_count_override,   \* MessanaCoordinator.zone_count_override
    data,                  \* coordinator.data: the retained snapshot
    last_exception,        \* what the last finished cycle raised ("none": it returned)
    pc,                    \* "idle", or the client call the cycle is suspended at
    loc,                   \* local variables of the running (or last) cycle
    startData,             \* history: coordinator.data when the cycle started
    lastCall,              \* history: the last client call, its response and its error
    allOk,                 \* history: every response of the cycle was a well-formed 200
    issued,                \* history: the client calls the running cycle has issued
    outstanding,           \* history: client calls issued and not yet returned
    setup,                 \* async_setup_entry: where it is, what it stored and set up
    entity,                \* the adapter the model follows: its kind, index and key
    adapter,               \* the adapter's running (or last) user action
    fresh,                 \* history: refresh requested after a command; reads before it
    reading,               \* what the last property read of the adapter gave
    building,              \* the dict objects the running cycle fills: "new", "retained"
    held,                  \* the snapshot object a subscriber keeps a reference to
    flow,                  \* the config flow's user step: where it is and its result
    device,                \* the device behind the API, where the model follows one
    clientResult           \* what a client read called on its own returned: <<>>, <<v>>

vars == <<configured, zone_count_override, data, last_exception, pc, loc,
          startData, lastCall, allOk, issued, outstanding, setup, entity,
          adapter, fresh, reading, building, held, flow, device, clientResult>>

Max(a, b) == IF a >= b THEN a ELSE b
Min(a, b) == IF a <= b THEN a ELSE b

----------------------------------------------------------------------------
(* Bounds of the model                                                     *)

MaxGroups == 2

(* Program constants                                                       *)

DEFAULT_ZONE_COUNT_OVERRIDE == 0
SENTINEL == -30000
HTTP_UNAUTHORIZED == 401
HTTP_ERROR_FLOOR == 400
PLATFORMS == {"climate", "sensor", "switch", "select"}

----------------------------------------------------------------------------
(* JSON values and HTTP responses                                          *)

Absent == [t |-> "absent"]
Null == [t |-> "null"]
Malformed == [t |-> "malformed"]
JInt(n) == [t |-> "num", n10 |-> n * 10, isf |-> FALSE]
JFloat(n10) == [t |-> "num", n10 |-> n10, isf |-> TRUE]
JStr(s) == [t |-> "str", s |-> s]
JObj(o) == [t |-> "obj", o |-> o]

EmptyObj ==
    [status |-> Absent, value |-> Absent, values |-> Absent,
     count |-> Absent, name |-> Absent]

Obj1(k, v) == JObj([EmptyObj EXCEPT ![k] = v])

Http(s, b) == [kind |-> "http", status |-> s, body |-> b]
Transport == [kind |-> "transport", status |-> 0, body |-> Null]
Timeout == [kind |-> "timeout", status |-> 0, body |-> Null]
NoResponse == [kind |-> "none", status |-> 0, body |-> Null]

----------------------------------------------------------------------------
(* Python conversions used by the client                                   *)

Trunc10(n10) == IF n10 >= 0 THEN n10 \div 10 ELSE -((-n10) \div 10)

\* int("...") and float("...") on the strings the model's bodies carry
TextInt(s) ==
    CASE s = "0" -> <<0>>
      [] s = "3" -> <<3>>
      [] OTHER -> <<>>

TextFloat(s) ==
    CASE s = "0" -> <<0>>
      [] s = "3" -> <<30>>
      [] s = "41.2" -> <<412>>
      [] OTHER -> <<>>

\* int(val): <<n>>, or <<>> when it raises TypeError / ValueError
PyInt(v) ==
    CASE v.t = "num" -> <<Trunc10(v.n10)>>
      [] v.t = "str" -> TextInt(v.s)
      [] OTHER -> <<>>

\* float(val) in tenths: <<n10>>, or <<>> when it raises
PyFloat(v) ==
    CASE v.t = "num" -> <<v.n10>>
      [] v.t = "str" -> TextFloat(v.s)
      [] OTHER -> <<>>

Digit(d) == <<"0", "1", "2", "3", "4", "5", "6", "7", "8", "9">>[d + 1]

RECURSIVE NatText(_)
NatText(n) == IF n < 10 THEN Digit(n) ELSE NatText(n \div 10) \o Digit(n % 10)

NumText(v) ==
    LET a == IF v.n10 < 0 THEN -v.n10 ELSE v.n10
        sign == IF v.n10 < 0 THEN "-" ELSE ""
    IN  IF v.isf
        THEN sign \o NatText(a \div 10) \o "." \o Digit(a % 10)
        ELSE sign \o NatText(a \div 10)

\* str(val)
PyStr(v) ==
    CASE v.t = "str" -> v.s
      [] v.t = "num" -> NumText(v)
      [] OTHER -> "None"

\* dict.get(key) and dict.get(key, default)
Get(d, k) == IF d[k] = Absent THEN Null ELSE d[k]
GetOr(d, k, dflt) == IF d[k] = Absent THEN dflt ELSE d[k]

----------------------------------------------------------------------------
(* MessanaClient                                                           *)

Raise(e) == [err |-> e, val |-> 0]
Return(v) == [err |-> "none", val |-> v]

RequestStatusFirst(resp) ==
    IF resp.kind # "http" THEN [err |-> "MessanaApiError", data |-> EmptyObj]
    ELSE IF resp.status >= HTTP_ERROR_FLOOR
         THEN [err |-> "MessanaApiError", data |-> EmptyObj]
    ELSE IF resp.body = Malformed
         THEN [err |-> "MessanaApiError", data |-> EmptyObj]
    ELSE IF resp.body.t # "obj"
         THEN [err |-> "none", data |-> [EmptyObj EXCEPT !.value = resp.body]]
    ELSE [err |-> "none", data |-> resp.body.o]

RequestKeepingBare(resp) ==
    IF resp.kind # "http" THEN [err |-> "MessanaApiError", data |-> EmptyObj]
    ELSE IF resp.status = HTTP_UNAUTHORIZED
         THEN [err |-> "MessanaAuthError", data |-> EmptyObj]
    ELSE IF resp.status >= HTTP_ERROR_FLOOR
         THEN [err |-> "MessanaApiError", data |-> EmptyObj]
    ELSE IF resp.body = Malformed
         THEN [err |-> "MessanaApiError", data |-> EmptyObj]
    ELSE IF resp.body.t # "obj"
         THEN [err |-> "none", data |-> EmptyObj]
    ELSE [err |-> "none", data |-> resp.body.o]

\* _request: the parsed body as a dict, or the error raised
Request(resp) ==
    IF resp.kind # "http" THEN [err |-> "MessanaApiError", data |-> EmptyObj]
    ELSE IF resp.status = HTTP_UNAUTHORIZED
         THEN [err |-> "MessanaAuthError", data |-> EmptyObj]
    ELSE IF resp.status >= HTTP_ERROR_FLOOR
         THEN [err |-> "MessanaApiError", data |-> EmptyObj]
    ELSE IF resp.body = Malformed
         THEN [err |-> "MessanaApiError", data |-> EmptyObj]
    ELSE IF resp.body.t # "obj"
         THEN [err |-> "none", data |-> [EmptyObj EXCEPT !.value = resp.body]]
    ELSE [err |-> "none", data |-> resp.body.o]

FloatOrNoneSentinelStrict(val, sentinel) ==
    IF val = Null THEN Null
    ELSE IF PyFloat(val) = <<>> THEN Null
    ELSE IF PyFloat(val)[1] < sentinel THEN Null
    ELSE JFloat(PyFloat(val)[1])

\* _float_or_none with a sentinel: Null, or the number (a float)
FloatOrNoneSentinel(val, sentinel) ==
    IF val = Null THEN Null
    ELSE IF PyFloat(val) = <<>> THEN Null
    ELSE IF PyFloat(val)[1] <= sentinel THEN Null
    ELSE JFloat(PyFloat(val)[1])

\* _float_or_none without a sentinel
FloatOrNone(val) ==
    IF val = Null THEN Null
    ELSE IF PyFloat(val) = <<>> THEN Null
    ELSE JFloat(PyFloat(val)[1])

IntOrDefault(val, dflt) == IF PyInt(val) = <<>> THEN dflt ELSE PyInt(val)[1]

get_system_status(resp) ==
    LET q == Request(resp)
    IN  IF q.err # "none" THEN Raise(q.err)
        ELSE Return(IntOrDefault(Get(q.data, "status"), 0))

get_temp_unit(resp) ==
    LET q == Request(resp)
    IN  IF q.err # "none" THEN Raise(q.err)
        ELSE Return(PyStr(GetOr(q.data, "value", JStr("Celsius"))))

CountOfDefaulting(resp) ==
    LET q == Request(resp)
    IN  IF q.err # "none" THEN Raise(q.err)
        ELSE Return(IntOrDefault(Get(q.data, "count"), 0))

\* int(data["count"]), KeyError / TypeError / ValueError turned into MessanaApiError
CountOf(resp) ==
    LET q == Request(resp)
    IN  IF q.err # "none" THEN Raise(q.err)
        ELSE IF q.data["count"] = Absent THEN Raise("MessanaApiError")
        ELSE IF PyInt(q.data["count"]) = <<>> THEN Raise("MessanaApiError")
        ELSE Return(PyInt(q.data["count"])[1])

get_zone_count(resp) == CountOf(resp)

get_hc_group_count(resp) == CountOf(resp)

get_hc_mode(resp) ==
    LET q == Request(resp)
    IN  IF q.err # "none" THEN Raise(q.err)
        ELSE Return(IntOrDefault(Get(q.data, "value"), 2))

get_hc_executive_season(resp) ==
    LET q == Request(resp)
    IN  IF q.err # "none" THEN Raise(q.err)
        ELSE Return(IntOrDefault(Get(q.data, "value"), 0))

get_zone_name(zone_id, resp) ==
    LET q == Request(resp)
    IN  IF q.err # "none" THEN Raise(q.err)
        ELSE Return(PyStr(GetOr(q.data, "name", JStr("Zone " \o NatText(zone_id)))))

get_zone_temperature(resp) ==
    LET q == Request(resp)
    IN  IF q.err # "none" THEN Raise(q.err)
        ELSE Return(FloatOrNoneSentinel(Get(q.data, "value"), SENTINEL))

get_zone_humidity_values_first(resp) ==
    LET q == Request(resp)
    IN  IF q.err # "none" THEN Raise(q.err)
        ELSE Return(FloatOrNone(GetOr(q.data, "values", Get(q.data, "value"))))

get_zone_humidity(resp) ==
    LET q == Request(resp)
    IN  IF q.err # "none" THEN Raise(q.err)
        ELSE Return(FloatOrNone(GetOr(q.data, "value", Get(q.data, "values"))))

get_zone_dewpoint(resp) ==
    LET q == Request(resp)
    IN  IF q.err # "none" THEN Raise(q.err)
        ELSE Return(FloatOrNoneSentinel(Get(q.data, "value"), SENTINEL))

get_zone_setpoint(resp) ==
    LET q == Request(resp)
    IN  IF q.err # "none" THEN Raise(q.err)
        ELSE Return(FloatOrNoneSentinel(Get(q.data, "value"), SENTINEL))

get_zone_status(resp) ==
    LET q == Request(resp)
    IN  IF q.err # "none" THEN Raise(q.err)
        ELSE Return(IntOrDefault(Get(q.data, "status"), 0))

get_zone_thermal_status(resp) ==
    LET q == Request(resp)
    IN  IF q.err # "none" THEN Raise(q.err)
        ELSE Return(IntOrDefault(Get(q.data, "status"), 0))

\* The operations MessanaClient defines.  get_zone_schedule_on and
\* get_zone_schedule_status, which the coordinator calls, are not among them.
ClientReads ==
    {"system_status", "temp_unit", "zone_count", "hc_group_count", "hc_mode",
     "hc_executive_season", "zone_name", "zone_temperature", "zone_humidity",
     "zone_dewpoint", "zone_setpoint", "zone_status", "zone_thermal_status"}

----------------------------------------------------------------------------
(* What the device may answer                                              *)

ReportedZoneCounts == {-1, 0, 10}
ReportedGroupCounts == -1 .. MaxGroups
ConfiguredOverrides == {<<>>, <<-1>>, <<0>>, <<1>>, <<5>>, <<256>>}

\* Bodies carrying the field the operation reads, of the type it expects
WellFormedBodies(op) ==
    CASE op = "system_status" -> {Obj1("status", JInt(0)), Obj1("status", JInt(1))}
      [] op = "temp_unit" -> {Obj1("value", JStr("Fahrenheit"))}
      [] op = "zone_count" -> {Obj1("count", JInt(n)) : n \in ReportedZoneCounts}
      [] op = "hc_group_count" -> {Obj1("count", JInt(n)) : n \in ReportedGroupCounts}
      [] op = "hc_mode" -> {Obj1("value", JInt(n)) : n \in 0 .. 1}
      [] op = "hc_executive_season" -> {Obj1("value", JInt(1))}
      [] op = "zone_name" -> {Obj1("name", JStr("Living"))}
      [] op = "zone_temperature" -> {Obj1("value", JFloat(215))}
      [] op = "zone_humidity" -> {Obj1("value", JFloat(412))}
      [] op = "zone_dewpoint" -> {Obj1("value", JFloat(100))}
      [] op = "zone_setpoint" -> {Obj1("value", JFloat(200))}
      [] op = "zone_status" -> {Obj1("status", JInt(1))}
      [] op = "zone_thermal_status" -> {Obj1("status", JInt(1))}

\* Bodies that parse as JSON but lack the field, carry it with a value of the
\* wrong type, or are no JSON object
IllFormedBodies(op) ==
    CASE op \in {"zone_count", "hc_group_count"} ->
             {JObj(EmptyObj), JInt(3), Obj1("count", JStr("abc")), Obj1("count", Null)}
      [] op = "zone_name" -> {JObj(EmptyObj)}
      [] OTHER -> {}

PassStatuses == {200}

FailureResponses ==
    {Transport, Timeout, Http(401, Null), Http(404, Null), Http(500, Null),
     Http(200, Malformed)}

\* the body a followed device answers a read with: its own state where it has
\* one for the read (loc.gid is the group the running cycle asks for)
DeviceBody(op) ==
    CASE op = "system_status" -> Obj1("status", JInt(device.system_on))
      [] op = "zone_count" -> Obj1("count", JInt(device.zone_count))
      [] op = "hc_group_count" -> Obj1("count", JInt(device.hc_count))
      [] op = "hc_mode" /\ loc.gid \in DOMAIN device.modes ->
             Obj1("value", JInt(device.modes[loc.gid]))
      [] OTHER -> CHOOSE b \in WellFormedBodies(op) : TRUE

\* what a read may be answered with: anything when no device is followed, the
\* device's state or a failure when one is
Responses(op) ==
    IF device.present
    THEN {Http(200, DeviceBody(op)), Http(500, Null)}
    ELSE FailureResponses \cup
         {Http(s, b) : s \in PassStatuses,
                       b \in WellFormedBodies(op) \cup IllFormedBodies(op)}

\* a followed device applies a command it accepted; a mode for a group it
\* does not have changes nothing
Apply(dev, cmd) ==
    IF ~dev.present THEN dev
    ELSE IF cmd.op = "set_system_status" THEN [dev EXCEPT !.system_on = cmd.value]
    ELSE IF cmd.op = "set_hc_mode" /\ cmd.id \in DOMAIN dev.modes
         THEN [dev EXCEPT !.modes[cmd.id] = cmd.value]
    ELSE dev

GoodResponse(op, resp) ==
    resp.kind = "http" /\ resp.status = 200 /\ resp.body \in WellFormedBodies(op)

----------------------------------------------------------------------------
(* MessanaCoordinator                                                      *)

NoData == [absent |-> TRUE]

NoCall == [op |-> "none", resp |-> NoResponse, err |-> "none"]
Call(op, resp, err) == [op |-> op, resp |-> resp, err |-> err]

EmptyMap == [i \in {} |-> 0]

NoZone ==
    [name |-> "", temperature |-> Null, humidity |-> Null, dewpoint |-> Null,
     setpoint |-> Null, status |-> 0, thermal_status |-> 0]

\* the frame of _async_update_data before its first assignment
InitLoc ==
    [system_on |-> 0, temp_unit |-> "", api_zone_count |-> 0, hc_count |-> 0,
     zone_count |-> 0, gid |-> 0, mode |-> 0, hc_groups |-> EmptyMap,
     zid |-> 0, z |-> NoZone, zones |-> EmptyMap]

\* async_setup_entry: int(entry.options.get(CONF_ZONE_COUNT_OVERRIDE, DEFAULT))
OptionOverride(cfg) == IF cfg = <<>> THEN DEFAULT_ZONE_COUNT_OVERRIDE ELSE cfg[1]

\* __init__: max(int(zone_count_override or 0), 0)
InitOverrideUnclamped(x) == IF x # 0 THEN x ELSE 0
InitOverride(x) == Max(IF x # 0 THEN x ELSE 0, 0)

\* zone_count = self.zone_count_override or api_zone_count
EffectiveZoneCountSwapped(override, api) == IF api # 0 THEN api ELSE override
EffectiveZoneCount(override, api) == IF override # 0 THEN override ELSE api

\* range(max(hc_count, 0)) and range(max(zone_count, 0))
GroupRangeOneMore(hc_count) == 0 .. Max(hc_count, 0)
GroupRange(hc_count) == 0 .. (Max(hc_count, 0) - 1)
ZoneRangeMin(zone_count) == 0 .. (Min(zone_count, 0) - 1)
ZoneRange(zone_count) == 0 .. (Max(zone_count, 0) - 1)

\* the dict _async_update_data returns
Snapshot(l) ==
    [system |-> [status |-> l.system_on, temp_unit |-> l.temp_unit,
                 api_zone_count |-> l.api_zone_count,
                 effective_zone_count |-> l.zone_count],
     hc_groups |-> l.hc_groups,
     zones |-> l.zones]

PutAlone(f, k, v) == [i \in {k} |-> v]

Put(f, k, v) == [i \in DOMAIN f \cup {k} |-> IF i = k THEN v ELSE f[i]]

\* the calls before the loops, of the group loop and of the zone loop
SystemCalls == {"system_status", "temp_unit", "zone_count", "hc_group_count"}
GroupCalls == {"hc_mode", "hc_executive_season"}
ZoneCalls ==
    {"zone_name", "zone_temperature", "zone_humidity", "zone_dewpoint",
     "zone_setpoint", "zone_status", "zone_thermal_status"}

\* a client call as the cycle issues it: the operation and the gid / zid it is for
Issue(op, l) ==
    [op |-> op,
     idx |-> IF op \in GroupCalls THEN l.gid ELSE IF op \in ZoneCalls THEN l.zid ELSE -1]

NotSetUp == [pc |-> "first_refresh", stored |-> FALSE, platforms |-> {}]

\* no adapter followed, no user action run, no property read
NoEntity == [kind |-> "none", idx |-> 0, key |-> ""]
IdleAdapter ==
    [pc |-> "idle", action |-> "none", arg |-> "", queue |-> <<>>, sent |-> 0,
     refreshed |-> FALSE, err |-> "none"]
NoReading == [prop |-> "none", err |-> "none", val |-> Null]

\* no config flow followed
NoFlow ==
    [pc |-> "none", user_input |-> FALSE, errors |-> "", result |-> "none",
     raised |-> "none"]

\* no device followed: its answers are unconstrained
NoDevice ==
    [present |-> FALSE, system_on |-> 0, zone_count |-> 0, hc_count |-> 0,
     modes |-> EmptyMap]

async_setup_entry_unchecked(s, ok) ==
    IF s.pc # "first_refresh" THEN s
    ELSE [pc |-> "loaded", stored |-> TRUE, platforms |-> PLATFORMS]

\* async_setup_entry from `await coordinator.async_config_entry_first_refresh()`
\* on: the await raises when the first refresh failed, and nothing after it runs
async_setup_entry(s, ok) ==
    IF s.pc # "first_refresh" THEN s
    ELSE IF ok THEN [pc |-> "loaded", stored |-> TRUE, platforms |-> PLATFORMS]
    ELSE [pc |-> "not_ready", stored |-> FALSE, platforms |-> {}]

Frame ==
    <<configured, zone_count_override, clientResult, entity, adapter, reading, flow,
      device>>

\* nothing requested, and no read of the running cycle older than a command
NotRequested == [requested |-> FALSE, readsBefore |-> FALSE, stale |-> FALSE]

SuspendPublishing(op, l, call) ==
    /\ pc' = op
    /\ loc' = l
    /\ data' = Snapshot(l)
    /\ lastCall' = call
    /\ allOk' = (allOk /\ GoodResponse(call.op, call.resp))
    /\ issued' = Append(issued, Issue(op, l))
    /\ outstanding' = (outstanding - 1) + 1
    /\ UNCHANGED <<Frame, last_exception, startData, setup, fresh, building, held>>

SuspendWithoutAwait(op, l, call) ==
    /\ pc' = op
    /\ loc' = l
    /\ lastCall' = call
    /\ allOk' = (allOk /\ GoodResponse(call.op, call.resp))
    /\ issued' = Append(issued, Issue(op, l))
    /\ outstanding' = outstanding + 1
    /\ UNCHANGED <<Frame, data, last_exception, startData, setup, fresh, building,
                   held>>

\* the awaited call has returned and the cycle suspends at the next client call
Suspend(op, l, call) ==
    /\ pc' = op
    /\ loc' = l
    /\ lastCall' = call
    /\ allOk' = (allOk /\ GoodResponse(call.op, call.resp))
    /\ issued' = Append(issued, Issue(op, l))
    /\ outstanding' = (outstanding - 1) + 1
    /\ UNCHANGED <<Frame, data, last_exception, startData, setup, fresh, building,
                   held>>

\* _async_update_data returns and its result becomes coordinator.data
Finish(l, call) ==
    /\ pc' = "idle"
    /\ loc' = InitLoc
    /\ data' = Snapshot(l)
    /\ last_exception' = "none"
    /\ lastCall' = call
    /\ allOk' = (allOk /\ GoodResponse(call.op, call.resp))
    /\ issued' = <<>>
    /\ outstanding' = outstanding - 1
    /\ setup' = async_setup_entry(setup, TRUE)
    /\ fresh' = NotRequested
    /\ building' = "none"
    /\ held' = IF held = "retained" /\ building # "retained" THEN "replaced" ELSE held
    /\ UNCHANGED <<Frame, startData>>

\* _async_update_data raises: nothing is assigned to coordinator.data
\* (ok: whether every response of the cycle was a well-formed 200)
FailPublishingPartial(l, call, exc, ok) ==
    /\ pc' = "idle"
    /\ loc' = InitLoc
    /\ data' = Snapshot(l)
    /\ last_exception' = exc
    /\ lastCall' = call
    /\ allOk' = ok
    /\ issued' = <<>>
    /\ outstanding' = outstanding - 1
    /\ setup' = async_setup_entry(setup, FALSE)
    /\ fresh' = NotRequested
    /\ building' = "none"
    /\ held' = IF held = "retained" /\ building # "retained" THEN "replaced" ELSE held
    /\ UNCHANGED <<Frame, startData>>

Fail(l, call, exc, ok) ==
    /\ pc' = "idle"
    /\ loc' = InitLoc
    /\ last_exception' = exc
    /\ lastCall' = call
    /\ allOk' = ok
    /\ issued' = <<>>
    /\ outstanding' = outstanding - 1
    /\ setup' = async_setup_entry(setup, FALSE)
    /\ fresh' = [fresh EXCEPT !.readsBefore = FALSE, !.stale = FALSE]
    /\ building' = "none"
    /\ UNCHANGED <<Frame, data, startData, held>>

\* except MessanaApiError as e: raise UpdateFailed(str(e)) from e
Raised(l, op, resp, err) ==
    Fail(l, Call(op, resp, err), "UpdateFailed", allOk /\ GoodResponse(op, resp))

\* for zid in range(max(zone_count, 0)): first iteration, or the return
EnterZones(l, call) ==
    IF ZoneRange(l.zone_count) # {}
    THEN Suspend("zone_name", [l EXCEPT !.zid = 0, !.z = NoZone], call)
    ELSE Finish(l, call)

\* for gid in range(max(hc_count, 0)): first iteration, or on to the zones
EnterGroups(l, call) ==
    IF GroupRange(l.hc_count) # {}
    THEN Suspend("hc_mode", [l EXCEPT !.gid = 0], call)
    ELSE EnterZones(l, call)

Init ==
    /\ configured \in ConfiguredOverrides
    /\ zone_count_override = InitOverride(OptionOverride(configured))
    /\ data = NoData
    /\ last_exception = "none"
    /\ pc = "idle"
    /\ loc = InitLoc
    /\ startData = NoData
    /\ lastCall = NoCall
    /\ allOk = TRUE
    /\ issued = <<>>
    /\ outstanding = 0
    /\ setup = NotSetUp
    /\ entity = NoEntity
    /\ adapter = IdleAdapter
    /\ fresh = NotRequested
    /\ reading = NoReading
    /\ building = "none"
    /\ held = "none"
    /\ flow = NoFlow
    /\ device = NoDevice
    /\ clientResult = <<>>

StartCycleInPlace ==
    /\ pc = "idle"
    /\ setup.pc # "not_ready"
    /\ pc' = "system_status"
    /\ loc' = InitLoc
    /\ startData' = data
    /\ lastCall' = NoCall
    /\ allOk' = TRUE
    /\ issued' = <<Issue("system_status", InitLoc)>>
    /\ outstanding' = outstanding + 1
    /\ fresh' = [fresh EXCEPT !.readsBefore = FALSE, !.stale = FALSE]
    /\ building' = IF data = NoData THEN "new" ELSE "retained"
    /\ UNCHANGED <<Frame, data, last_exception, setup, held>>

\* A refresh (first refresh, timer tick or requested) enters _async_update_data.
\* The model follows one cycle at a time: when refreshes are started is decided
\* by the DataUpdateCoordinator base class, which the repository does not hold.
\* A coordinator whose first refresh failed is dropped with its setup.
\* The run fills dicts it creates itself (`hc_groups = {}`, `zones = {}`).
StartCycle ==
    /\ pc = "idle"
    /\ setup.pc # "not_ready"
    /\ pc' = "system_status"
    /\ loc' = InitLoc
    /\ startData' = data
    /\ lastCall' = NoCall
    /\ allOk' = TRUE
    /\ issued' = <<Issue("system_status", InitLoc)>>
    /\ outstanding' = outstanding + 1
    /\ fresh' = [fresh EXCEPT !.readsBefore = FALSE, !.stale = FALSE]
    /\ building' = "new"
    /\ UNCHANGED <<Frame, data, last_exception, setup, held>>

GetSystemStatus ==
    /\ pc = "system_status"
    /\ \E resp \in Responses("system_status") :
         LET r == get_system_status(resp)
             call == Call("system_status", resp, r.err)
         IN  IF r.err # "none" THEN Raised(loc, "system_status", resp, r.err)
             ELSE Suspend("temp_unit", [loc EXCEPT !.system_on = r.val], call)

GetTempUnit ==
    /\ pc = "temp_unit"
    /\ \E resp \in Responses("temp_unit") :
         LET r == get_temp_unit(resp)
             call == Call("temp_unit", resp, r.err)
         IN  IF r.err # "none" THEN Raised(loc, "temp_unit", resp, r.err)
             ELSE Suspend("zone_count", [loc EXCEPT !.temp_unit = r.val], call)

GetZoneCount ==
    /\ pc = "zone_count"
    /\ \E resp \in Responses("zone_count") :
         LET r == get_zone_count(resp)
             call == Call("zone_count", resp, r.err)
         IN  IF r.err # "none" THEN Raised(loc, "zone_count", resp, r.err)
             ELSE Suspend("hc_group_count", [loc EXCEPT !.api_zone_count = r.val], call)

GetHcGroupCount ==
    /\ pc = "hc_group_count"
    /\ \E resp \in Responses("hc_group_count") :
         LET r == get_hc_group_count(resp)
             call == Call("hc_group_count", resp, r.err)
             l == [loc EXCEPT !.hc_count = r.val,
                              !.zone_count =
                                  EffectiveZoneCount(zone_count_override, loc.api_zone_count)]
         IN  IF r.err # "none" THEN Raised(loc, "hc_group_count", resp, r.err)
             ELSE EnterGroups(l, call)

GetHcMode ==
    /\ pc = "hc_mode"
    /\ \E resp \in Responses("hc_mode") :
         LET r == get_hc_mode(resp)
             call == Call("hc_mode", resp, r.err)
         IN  IF r.err # "none" THEN Raised(loc, "hc_mode", resp, r.err)
             ELSE Suspend("hc_executive_season", [loc EXCEPT !.mode = r.val], call)

GetHcExecutiveSeason ==
    /\ pc = "hc_executive_season"
    /\ \E resp \in Responses("hc_executive_season") :
         LET r == get_hc_executive_season(resp)
             call == Call("hc_executive_season", resp, r.err)
             l == [loc EXCEPT !.hc_groups =
                       Put(loc.hc_groups, loc.gid,
                           [mode |-> loc.mode, executive_season |-> r.val])]
         IN  IF r.err # "none" THEN Raised(loc, "hc_executive_season", resp, r.err)
             ELSE IF loc.gid + 1 \in GroupRange(loc.hc_count)
                  THEN Suspend("hc_mode", [l EXCEPT !.gid = loc.gid + 1], call)
                  ELSE EnterZones(l, call)

GetZoneName ==
    /\ pc = "zone_name"
    /\ \E resp \in Responses("zone_name") :
         LET r == get_zone_name(loc.zid, resp)
             call == Call("zone_name", resp, r.err)
         IN  IF r.err # "none" THEN Raised(loc, "zone_name", resp, r.err)
             ELSE Suspend("zone_temperature", [loc EXCEPT !.z.name = r.val], call)

GetZoneTemperature ==
    /\ pc = "zone_temperature"
    /\ \E resp \in Responses("zone_temperature") :
         LET r == get_zone_temperature(resp)
             call == Call("zone_temperature", resp, r.err)
         IN  IF r.err # "none" THEN Raised(loc, "zone_temperature", resp, r.err)
             ELSE Suspend("zone_humidity", [loc EXCEPT !.z.temperature = r.val], call)

GetZoneHumidity ==
    /\ pc = "zone_humidity"
    /\ \E resp \in Responses("zone_humidity") :
         LET r == get_zone_humidity(resp)
             call == Call("zone_humidity", resp, r.err)
         IN  IF r.err # "none" THEN Raised(loc, "zone_humidity", resp, r.err)
             ELSE Suspend("zone_dewpoint", [loc EXCEPT !.z.humidity = r.val], call)

GetZoneDewpoint ==
    /\ pc = "zone_dewpoint"
    /\ \E resp \in Responses("zone_dewpoint") :
         LET r == get_zone_dewpoint(resp)
             call == Call("zone_dewpoint", resp, r.err)
         IN  IF r.err # "none" THEN Raised(loc, "zone_dewpoint", resp, r.err)
             ELSE Suspend("zone_setpoint", [loc EXCEPT !.z.dewpoint = r.val], call)

GetZoneSetpoint ==
    /\ pc = "zone_setpoint"
    /\ \E resp \in Responses("zone_setpoint") :
         LET r == get_zone_setpoint(resp)
             call == Call("zone_setpoint", resp, r.err)
         IN  IF r.err # "none" THEN Raised(loc, "zone_setpoint", resp, r.err)
             ELSE Suspend("zone_status", [loc EXCEPT !.z.setpoint = r.val], call)

GetZoneStatus ==
    /\ pc = "zone_status"
    /\ \E resp \in Responses("zone_status") :
         LET r == get_zone_status(resp)
             call == Call("zone_status", resp, r.err)
         IN  IF r.err # "none" THEN Raised(loc, "zone_status", resp, r.err)
             ELSE Suspend("zone_thermal_status", [loc EXCEPT !.z.status = r.val], call)

\* get_zone_thermal_status returns; the next statement looks up
\* self.client.get_zone_schedule_on, which MessanaClient does not define:
\* AttributeError, which `except MessanaApiError` does not catch.
GetZoneThermalStatus ==
    /\ pc = "zone_thermal_status"
    /\ \E resp \in Responses("zone_thermal_status") :
         LET r == get_zone_thermal_status(resp)
             l == [loc EXCEPT !.z.thermal_status = r.val]
         IN  IF r.err # "none" THEN Raised(loc, "zone_thermal_status", resp, r.err)
             ELSE IF "zone_schedule_on" \in ClientReads
                  THEN Suspend("zone_schedule_on", l, Call("zone_thermal_status", resp, r.err))
                  ELSE Fail(l, Call("zone_schedule_on", NoResponse, "AttributeError"),
                            "AttributeError",
                            allOk /\ GoodResponse("zone_thermal_status", resp))

Next ==
    \/ StartCycle
    \/ GetSystemStatus
    \/ GetTempUnit
    \/ GetZoneCount
    \/ GetHcGroupCount
    \/ GetHcMode
    \/ GetHcExecutiveSeason
    \/ GetZoneName
    \/ GetZoneTemperature
    \/ GetZoneHumidity
    \/ GetZoneDewpoint
    \/ GetZoneSetpoint
    \/ GetZoneStatus
    \/ GetZoneThermalStatus

Spec == Init /\ [][Next]_vars

----------------------------------------------------------------------------
(* The client's read operations on their own                               *)

MaxZoneId == 1

Scalars ==
    {Null, JInt(0), JInt(1), JInt(3), JInt(-1), JFloat(412), JFloat(-32768),
     JFloat(-30000), JFloat(-29999), JStr("abc"), JStr("3"), JStr("41.2"),
     JStr("Living"), JStr("Fahrenheit")}

Keys == {"status", "value", "values", "count", "name"}

ClientBodies ==
    {Malformed, JObj(EmptyObj), Null, JInt(3), JFloat(215), JStr("abc")}
    \cup {Obj1(k, v) : k \in Keys, v \in Scalars}
    \cup {JObj([EmptyObj EXCEPT !.value = JFloat(412), !.values = JFloat(500)]),
          JObj([EmptyObj EXCEPT !.value = Null, !.values = JFloat(500)])}

ClientStatuses == {200, 204, 304, 401, 404, 500}

ClientResponses ==
    {Transport, Timeout} \cup {Http(s, b) : s \in ClientStatuses, b \in ClientBodies}

\* the read operation `op` of MessanaClient, given the device's response
Read(op, zone_id, resp) ==
    CASE op = "system_status" -> get_system_status(resp)
      [] op = "temp_unit" -> get_temp_unit(resp)
      [] op = "zone_count" -> get_zone_count(resp)
      [] op = "hc_group_count" -> get_hc_group_count(resp)
      [] op = "hc_mode" -> get_hc_mode(resp)
      [] op = "hc_executive_season" -> get_hc_executive_season(resp)
      [] op = "zone_name" -> get_zone_name(zone_id, resp)
      [] op = "zone_temperature" -> get_zone_temperature(resp)
      [] op = "zone_humidity" -> get_zone_humidity(resp)
      [] op = "zone_dewpoint" -> get_zone_dewpoint(resp)
      [] op = "zone_setpoint" -> get_zone_setpoint(resp)
      [] op = "zone_status" -> get_zone_status(resp)
      [] op = "zone_thermal_status" -> get_zone_thermal_status(resp)

InitClient ==
    /\ configured = <<>>
    /\ zone_count_override = 0
    /\ data = NoData
    /\ last_exception = "none"
    /\ pc = "client_call"
    /\ \E zone_id \in 0 .. MaxZoneId : loc = [InitLoc EXCEPT !.zid = zone_id]
    /\ startData = NoData
    /\ \E op \in ClientReads, resp \in ClientResponses : lastCall = Call(op, resp, "pending")
    /\ allOk = TRUE
    /\ issued = <<>>
    /\ outstanding = 0
    /\ setup = NotSetUp
    /\ entity = NoEntity
    /\ adapter = IdleAdapter
    /\ fresh = NotRequested
    /\ reading = NoReading
    /\ building = "none"
    /\ held = "none"
    /\ flow = NoFlow
    /\ device = NoDevice
    /\ clientResult = <<>>

\* one read operation is awaited to its end
ClientRead ==
    /\ pc = "client_call"
    /\ LET r == Read(lastCall.op, loc.zid, lastCall.resp)
       IN  /\ lastCall' = [lastCall EXCEPT !.err = r.err]
           /\ clientResult' = IF r.err = "none" THEN <<r.val>> ELSE <<>>
    /\ pc' = "client_done"
    /\ UNCHANGED <<configured, zone_count_override, data, last_exception, loc,
                   startData, allOk, issued, outstanding, setup, entity, adapter,
                   fresh, reading, building, held, flow, device>>

NextClient == ClientRead

SpecClient == InitClient /\ [][NextClient]_vars

----------------------------------------------------------------------------
(* The adapters: user actions (switch.py, select.py, climate.py, button.py) *)

\* The commands MessanaClient defines.  set_zone_schedule_on, which the
\* detach-schedule button calls, is not among them.
ClientCommands ==
    {"set_system_status", "set_hc_mode", "set_zone_setpoint", "set_zone_status"}

Cmd(op, id, value) == [op |-> op, id |-> id, value |-> value]

\* what a user action does: the client commands it awaits in turn, whether it
\* then requests a refresh, or the error it raises before any command
Commands(cmds) == [cmds |-> cmds, refresh |-> TRUE, raises |-> "none"]
Returns == [cmds |-> <<>>, refresh |-> FALSE, raises |-> "none"]
Raises(e) == [cmds |-> <<>>, refresh |-> FALSE, raises |-> e]

OPTIONS == {"Heating", "Cooling", "Auto"}
OPTION_TO_VALUE(option) ==
    CASE option = "Heating" -> 0
      [] option = "Cooling" -> 1
      [] option = "Auto" -> 2

HVAC_MODES == {"off", "heat", "cool", "heat_cool"}
Temperatures == {"none", "41.2"}

async_turn_on == Commands(<<Cmd("set_system_status", 0, 1)>>)

async_turn_off == Commands(<<Cmd("set_system_status", 0, 0)>>)

async_select_option(group_id, option) ==
    Commands(<<Cmd("set_hc_mode", group_id, OPTION_TO_VALUE(option))>>)

async_set_temperature(zone_id, temp) ==
    IF temp = "none" THEN Returns
    ELSE Commands(<<Cmd("set_zone_setpoint", zone_id, TextFloat(temp)[1])>>)

async_set_hvac_mode(hvac_mode) ==
    IF hvac_mode = "off" THEN Commands(<<Cmd("set_system_status", 0, 0)>>)
    ELSE Commands(<<Cmd("set_system_status", 0, 1)>> \o
                  (IF hvac_mode = "heat" THEN <<Cmd("set_hc_mode", 0, 0)>>
                   ELSE IF hvac_mode = "cool" THEN <<Cmd("set_hc_mode", 0, 1)>>
                   ELSE IF hvac_mode = "heat_cool" THEN <<Cmd("set_hc_mode", 0, 2)>>
                   ELSE <<>>))

async_press(zone_id) ==
    IF "set_zone_schedule_on" \in ClientCommands
    THEN Commands(<<Cmd("set_zone_schedule_on", zone_id, 0)>>)
    ELSE Raises("AttributeError")

UserAction(action, arg) == [action |-> action, arg |-> arg]

\* the user actions an adapter of this kind offers
UserActions(kind) ==
    CASE kind = "switch" ->
             {UserAction("async_turn_on", ""), UserAction("async_turn_off", "")}
      [] kind = "select" -> {UserAction("async_select_option", o) : o \in OPTIONS}
      [] kind = "climate" ->
             {UserAction("async_set_temperature", t) : t \in Temperatures}
             \cup {UserAction("async_set_hvac_mode", m) : m \in HVAC_MODES}
      [] kind = "button" -> {UserAction("async_press", "")}
      [] OTHER -> {}

Handler(e, ua) ==
    CASE ua.action = "async_turn_on" -> async_turn_on
      [] ua.action = "async_turn_off" -> async_turn_off
      [] ua.action = "async_select_option" -> async_select_option(e.idx, ua.arg)
      [] ua.action = "async_set_temperature" -> async_set_temperature(e.idx, ua.arg)
      [] ua.action = "async_set_hvac_mode" -> async_set_hvac_mode(ua.arg)
      [] ua.action = "async_press" -> async_press(e.idx)

\* what the device may answer to a command
CommandResponses ==
    {Http(200, JObj(EmptyObj)), Http(401, Null), Http(500, Null)}

\* a read of the running cycle has already returned
CycleHasRead == pc \in SystemCalls \cup GroupCalls \cup ZoneCalls /\ lastCall # NoCall

\* A user action of the adapter is called: it runs to its first await, to its
\* return or to the error it raises.
AdapterCall ==
    /\ adapter.pc = "idle"
    /\ setup.pc = "loaded"
    /\ \E ua \in UserActions(entity.kind) :
         LET h == Handler(entity, ua)
             a == [IdleAdapter EXCEPT !.action = ua.action, !.arg = ua.arg]
         IN  IF h.raises # "none"
             THEN /\ adapter' = [a EXCEPT !.err = h.raises]
                  /\ fresh' = fresh
             ELSE IF h.cmds = <<>>
             THEN /\ adapter' = [a EXCEPT !.refreshed = h.refresh]
                  /\ fresh' = [fresh EXCEPT !.requested = fresh.requested \/ h.refresh]
             ELSE /\ adapter' = [a EXCEPT !.pc = "command", !.queue = h.cmds, !.sent = 1]
                  /\ fresh' = [fresh EXCEPT !.readsBefore = CycleHasRead]
    /\ UNCHANGED <<configured, zone_count_override, data, last_exception, pc, loc,
                   startData, lastCall, allOk, issued, outstanding, setup, entity,
                   reading, building, held, flow, device, clientResult>>

AdapterCommandReturnsAlwaysRefreshing ==
    /\ adapter.pc = "command"
    /\ \E resp \in CommandResponses :
         LET q == Request(resp)
             rest == Tail(adapter.queue)
         IN  /\ IF q.err # "none"
                THEN /\ adapter' = [adapter EXCEPT !.pc = "idle", !.queue = <<>>,
                                                   !.err = q.err, !.refreshed = TRUE]
                     /\ fresh' = [fresh EXCEPT !.requested = TRUE,
                                               !.readsBefore = FALSE]
                ELSE IF rest # <<>>
                THEN /\ adapter' = [adapter EXCEPT !.queue = rest,
                                                   !.sent = adapter.sent + 1]
                     /\ fresh' = [fresh EXCEPT
                                      !.stale = fresh.stale \/ fresh.readsBefore,
                                      !.readsBefore = fresh.readsBefore \/ CycleHasRead]
                ELSE /\ adapter' = [adapter EXCEPT !.pc = "idle", !.queue = <<>>,
                                                   !.refreshed = TRUE]
                     /\ fresh' = [requested |-> TRUE, readsBefore |-> FALSE,
                                  stale |-> fresh.stale \/ fresh.readsBefore]
             /\ device' = IF q.err # "none" THEN device
                           ELSE Apply(device, Head(adapter.queue))
    /\ UNCHANGED <<configured, zone_count_override, data, last_exception, pc, loc,
                   startData, lastCall, allOk, issued, outstanding, setup, entity,
                   reading, building, held, flow, clientResult>>

\* The awaited command returns or raises.  An error ends the user action; after
\* the last command the action calls coordinator.async_request_refresh().
AdapterCommandReturns ==
    /\ adapter.pc = "command"
    /\ \E resp \in CommandResponses :
         LET q == Request(resp)
             rest == Tail(adapter.queue)
         IN  /\ IF q.err # "none"
                THEN /\ adapter' = [adapter EXCEPT !.pc = "idle", !.queue = <<>>,
                                                   !.err = q.err]
                     /\ fresh' = [fresh EXCEPT !.readsBefore = FALSE]
                ELSE IF rest # <<>>
                THEN /\ adapter' = [adapter EXCEPT !.queue = rest,
                                                   !.sent = adapter.sent + 1]
                     /\ fresh' = [fresh EXCEPT
                                      !.stale = fresh.stale \/ fresh.readsBefore,
                                      !.readsBefore = fresh.readsBefore \/ CycleHasRead]
                ELSE /\ adapter' = [adapter EXCEPT !.pc = "idle", !.queue = <<>>,
                                                   !.refreshed = TRUE]
                     /\ fresh' = [requested |-> TRUE, readsBefore |-> FALSE,
                                  stale |-> fresh.stale \/ fresh.readsBefore]
             /\ device' = IF q.err # "none" THEN device
                           ELSE Apply(device, Head(adapter.queue))
    /\ UNCHANGED <<configured, zone_count_override, data, last_exception, pc, loc,
                   startData, lastCall, allOk, issued, outstanding, setup, entity,
                   reading, building, held, flow, clientResult>>

\* The coordinator with the system power switch, the adapter switch.py always
\* creates when the platforms are set up.
InitLive ==
    /\ configured = <<>>
    /\ zone_count_override = InitOverride(OptionOverride(configured))
    /\ data = NoData
    /\ last_exception = "none"
    /\ pc = "idle"
    /\ loc = InitLoc
    /\ startData = NoData
    /\ lastCall = NoCall
    /\ allOk = TRUE
    /\ issued = <<>>
    /\ outstanding = 0
    /\ setup = NotSetUp
    /\ entity = [kind |-> "switch", idx |-> 0, key |-> ""]
    /\ adapter = IdleAdapter
    /\ fresh = NotRequested
    /\ reading = NoReading
    /\ building = "none"
    /\ held = "none"
    /\ flow = NoFlow
    /\ device = NoDevice
    /\ clientResult = <<>>

NextLive ==
    \/ Next
    \/ AdapterCall
    \/ AdapterCommandReturns

SpecLive == InitLive /\ [][NextLive]_vars

----------------------------------------------------------------------------
(* The adapters: properties read from the snapshot                         *)

PropOk(v) == [err |-> "none", val |-> v]
PropErr(e) == [err |-> e, val |-> Null]
JBool(b) == [t |-> "bool", b |-> b]

\* _ha_temp_unit: messana_unit.lower().startswith("f"), on the texts of the model
ha_temp_unit(messana_unit) ==
    IF messana_unit \in {"Fahrenheit", "fahrenheit", "F", "f"}
    THEN "FAHRENHEIT" ELSE "CELSIUS"

hvac_mode_from_hc(mode, system_on) ==
    IF ~system_on THEN "off"
    ELSE IF mode = 0 THEN "heat"
    ELSE IF mode = 1 THEN "cool"
    ELSE "heat_cool"

VALUE_TO_OPTION(mode) ==
    CASE mode = 0 -> "Heating"
      [] mode = 1 -> "Cooling"
      [] mode = 2 -> "Auto"
      [] OTHER -> "Auto"

\* z.get("name", f"Zone {zone_id}") on zones.get(zone_id, {})
ZoneNameOr(zones, zone_id) ==
    IF zone_id \in DOMAIN zones THEN zones[zone_id].name ELSE "Zone " \o NatText(zone_id)

\* MessanaZoneClimate
climate_name(d, zone_id) ==
    PropOk(JStr(ZoneNameOr(IF d = NoData THEN EmptyMap ELSE d.zones, zone_id)))

climate_available(d, zone_id, success) ==
    IF ~success THEN PropOk(JBool(FALSE))
    ELSE IF d = NoData THEN PropErr("AttributeError")
    ELSE PropOk(JBool(zone_id \in DOMAIN d.zones))

climate_temperature_unit(d) ==
    IF d = NoData THEN PropErr("AttributeError")
    ELSE PropOk(JStr(ha_temp_unit(d.system.temp_unit)))

current_temperature(d, zone_id) ==
    IF d = NoData THEN PropErr("TypeError")
    ELSE IF zone_id \notin DOMAIN d.zones THEN PropErr("KeyError")
    ELSE PropOk(d.zones[zone_id].temperature)

target_temperature(d, zone_id) ==
    IF d = NoData THEN PropErr("TypeError")
    ELSE IF zone_id \notin DOMAIN d.zones THEN PropErr("KeyError")
    ELSE PropOk(d.zones[zone_id].setpoint)

hvac_mode(d) ==
    IF d = NoData THEN PropErr("AttributeError")
    ELSE PropOk(JStr(hvac_mode_from_hc(
             IF 0 \in DOMAIN d.hc_groups THEN d.hc_groups[0].mode ELSE 2,
             d.system.status # 0)))

extra_state_attributes(d, zone_id) ==
    LET zones == IF d = NoData THEN EmptyMap ELSE d.zones
        has == zone_id \in DOMAIN zones
    IN  PropOk([t |-> "attrs",
                zone_status |-> IF has THEN JInt(zones[zone_id].status) ELSE Null,
                thermal_status |-> IF has THEN JInt(zones[zone_id].thermal_status) ELSE Null,
                humidity |-> IF has THEN zones[zone_id].humidity ELSE Null,
                dewpoint |-> IF has THEN zones[zone_id].dewpoint ELSE Null])

\* MessanaZoneSensor (key: "humidity" or "dewpoint")
sensor_name(d, zone_id, key) ==
    IF d = NoData THEN PropErr("TypeError")
    ELSE PropOk(JStr(ZoneNameOr(d.zones, zone_id) \o " " \o
                     (IF key = "humidity" THEN "Humidity" ELSE "Dew Point")))

native_unit_of_measurement(d, key) ==
    IF key = "dewpoint"
    THEN IF d = NoData THEN PropErr("AttributeError")
         ELSE PropOk(JStr(ha_temp_unit(d.system.temp_unit)))
    ELSE PropOk(JStr("%"))

native_value(d, zone_id, key) ==
    IF d = NoData THEN PropErr("TypeError")
    ELSE IF zone_id \notin DOMAIN d.zones THEN PropOk(Null)
    ELSE PropOk(d.zones[zone_id][key])

\* MessanaHCModeSelect
current_option(d, group_id) ==
    IF d = NoData THEN PropErr("AttributeError")
    ELSE PropOk(JStr(VALUE_TO_OPTION(
             IF group_id \in DOMAIN d.hc_groups THEN d.hc_groups[group_id].mode ELSE 2)))

\* MessanaSystemPowerSwitch
is_on(d) ==
    IF d = NoData THEN PropErr("AttributeError")
    ELSE PropOk(JBool(d.system.status # 0))

\* the properties an adapter of this kind computes from the snapshot
Properties(kind) ==
    CASE kind = "climate" ->
             {"name", "available", "temperature_unit", "current_temperature",
              "target_temperature", "hvac_mode", "extra_state_attributes"}
      [] kind = "sensor" -> {"name", "native_unit_of_measurement", "native_value"}
      [] kind = "select" -> {"current_option"}
      [] kind = "switch" -> {"is_on"}
      [] OTHER -> {}

Property(e, prop, d, success) ==
    CASE e.kind = "climate" /\ prop = "name" -> climate_name(d, e.idx)
      [] e.kind = "climate" /\ prop = "available" -> climate_available(d, e.idx, success)
      [] e.kind = "climate" /\ prop = "temperature_unit" -> climate_temperature_unit(d)
      [] e.kind = "climate" /\ prop = "current_temperature" -> current_temperature(d, e.idx)
      [] e.kind = "climate" /\ prop = "target_temperature" -> target_temperature(d, e.idx)
      [] e.kind = "climate" /\ prop = "hvac_mode" -> hvac_mode(d)
      [] e.kind = "climate" /\ prop = "extra_state_attributes" ->
             extra_state_attributes(d, e.idx)
      [] e.kind = "sensor" /\ prop = "name" -> sensor_name(d, e.idx, e.key)
      [] e.kind = "sensor" /\ prop = "native_unit_of_measurement" ->
             native_unit_of_measurement(d, e.key)
      [] e.kind = "sensor" /\ prop = "native_value" -> native_value(d, e.idx, e.key)
      [] e.kind = "select" /\ prop = "current_option" -> current_option(d, e.idx)
      [] e.kind = "switch" /\ prop = "is_on" -> is_on(d)

\* Home Assistant reads a property of the adapter
ReadProperty ==
    /\ adapter.pc = "idle"
    /\ \E prop \in Properties(entity.kind) :
         LET r == Property(entity, prop, data, last_exception = "none")
         IN  reading' = [prop |-> prop, err |-> r.err, val |-> r.val]
    /\ UNCHANGED <<configured, zone_count_override, data, last_exception, pc, loc,
                   startData, lastCall, allOk, issued, outstanding, setup, entity,
                   adapter, fresh, building, held, flow, device, clientResult>>

----------------------------------------------------------------------------
(* One adapter on its own, over a snapshot it is handed                    *)

Entity(kind, idx, key) == [kind |-> kind, idx |-> idx, key |-> key]

Entities ==
    {Entity("switch", 0, "")}
    \cup {Entity("select", g, "") : g \in 0 .. (MaxGroups - 1)}
    \cup {Entity(k, z, "") : k \in {"climate", "button"}, z \in 0 .. MaxZoneId}
    \cup {Entity("sensor", z, k) : z \in 0 .. MaxZoneId, k \in {"humidity", "dewpoint"}}

SampleZone ==
    [name |-> "Living", temperature |-> JFloat(215), humidity |-> JFloat(412),
     dewpoint |-> Null, setpoint |-> JFloat(200), status |-> 1, thermal_status |-> 1]

\* snapshots of the shape _async_update_data returns: zones 0 .. n-1, and no
\* H/C group or group 0
AdapterSnapshots ==
    {NoData} \cup
    {Snapshot([InitLoc EXCEPT !.system_on = on, !.temp_unit = "Fahrenheit",
                              !.api_zone_count = n, !.zone_count = n,
                              !.hc_groups = g,
                              !.zones = [z \in 0 .. (n - 1) |-> SampleZone]]) :
        on \in 0 .. 1, n \in 0 .. MaxZoneId,
        g \in {EmptyMap} \cup
              {[i \in {0} |-> [mode |-> m, executive_season |-> 0]] : m \in 0 .. 2}}

Loaded == [pc |-> "loaded", stored |-> TRUE, platforms |-> PLATFORMS]

InitAdapters ==
    /\ configured = <<>>
    /\ zone_count_override = 0
    /\ data \in AdapterSnapshots
    /\ last_exception \in {"none", "UpdateFailed"}
    /\ pc = "idle"
    /\ loc = InitLoc
    /\ startData = NoData
    /\ lastCall = NoCall
    /\ allOk = TRUE
    /\ issued = <<>>
    /\ outstanding = 0
    /\ setup = IF data = NoData THEN NotSetUp ELSE Loaded
    /\ entity \in Entities
    /\ adapter = IdleAdapter
    /\ fresh = NotRequested
    /\ reading = NoReading
    /\ building = "none"
    /\ held = "none"
    /\ flow = NoFlow
    /\ device = NoDevice
    /\ clientResult = <<>>

NextAdapters ==
    \/ AdapterCall
    \/ AdapterCommandReturns
    \/ ReadProperty

SpecAdapters == InitAdapters /\ [][NextAdapters]_vars

----------------------------------------------------------------------------
(* A subscriber that keeps the snapshot it was handed                      *)

\* a subscriber takes coordinator.data and keeps the reference
Hold ==
    /\ data # NoData
    /\ held # "retained"
    /\ held' = "retained"
    /\ UNCHANGED <<configured, zone_count_override, data, last_exception, pc, loc,
                   startData, lastCall, allOk, issued, outstanding, setup, entity,
                   adapter, fresh, reading, building, flow, device, clientResult>>

InitSubscriber == InitLive

NextSubscriber ==
    \/ Next
    \/ Hold

SpecSubscriber == InitSubscriber /\ [][NextSubscriber]_vars

----------------------------------------------------------------------------
(* The config flow's user step (config_flow.py)                            *)

\* the names config_flow.py binds at module level: its imports and its own
\* definitions.  The schema of the user step also refers to
\* CONF_DETACH_ON_SETPOINT and options, which are bound nowhere.
FlowNames ==
    {"vol", "config_entries", "HomeAssistant", "FlowResult", "MessanaClient",
     "MessanaApiError", "MessanaAuthError", "DOMAIN", "CONF_BASE_URL",
     "CONF_API_KEY", "CONF_SCAN_INTERVAL", "CONF_ZONE_COUNT_OVERRIDE",
     "DEFAULT_SCAN_INTERVAL_SECONDS", "DEFAULT_ZONE_COUNT_OVERRIDE", "_validate",
     "MessanaConfigFlow", "MessanaOptionsFlowHandler"}

\* the names the user step has bound itself when it builds the schema
StepUserLocals == {"self", "user_input", "errors", "base_url", "api_key"}

\* except MessanaAuthError / except MessanaApiError / except Exception
Classify(err) ==
    CASE err = "MessanaAuthError" -> "auth"
      [] err = "MessanaApiError" -> "cannot_connect"
      [] OTHER -> "unknown"

\* schema = vol.Schema({...}); return self.async_show_form(..., errors=errors)
show_form(f, errors) ==
    IF {"CONF_DETACH_ON_SETPOINT", "options"} \subseteq FlowNames \cup StepUserLocals
    THEN [f EXCEPT !.pc = "done", !.errors = errors, !.result = "form"]
    ELSE [f EXCEPT !.pc = "done", !.errors = errors, !.raised = "NameError"]

\* return self.async_create_entry(...)
create_entry(f) == [f EXCEPT !.pc = "done", !.result = "create_entry"]

\* async_step_user is called: without input it goes to the form, with input it
\* awaits _validate, which awaits client.get_system_status()
FlowStepUser ==
    /\ flow.pc = "start"
    /\ \E given \in BOOLEAN :
         flow' = IF given THEN [flow EXCEPT !.pc = "validate", !.user_input = TRUE]
                 ELSE show_form(flow, "")
    /\ UNCHANGED <<configured, zone_count_override, data, last_exception, pc, loc,
                   startData, lastCall, allOk, issued, outstanding, setup, entity,
                   adapter, fresh, reading, building, held, device, clientResult>>

\* _validate returns or raises; the step creates the entry, or classifies the
\* error and goes to the form
FlowValidateReturns ==
    /\ flow.pc = "validate"
    /\ \E resp \in ClientResponses :
         LET r == get_system_status(resp)
         IN  /\ lastCall' = Call("system_status", resp, r.err)
             /\ flow' = IF r.err = "none" THEN create_entry(flow)
                        ELSE show_form(flow, Classify(r.err))
    /\ UNCHANGED <<configured, zone_count_override, data, last_exception, pc, loc,
                   startData, allOk, issued, outstanding, setup, entity, adapter,
                   fresh, reading, building, held, device, clientResult>>

InitFlow ==
    /\ configured = <<>>
    /\ zone_count_override = 0
    /\ data = NoData
    /\ last_exception = "none"
    /\ pc = "idle"
    /\ loc = InitLoc
    /\ startData = NoData
    /\ lastCall = NoCall
    /\ allOk = TRUE
    /\ issued = <<>>
    /\ outstanding = 0
    /\ setup = NotSetUp
    /\ entity = NoEntity
    /\ adapter = IdleAdapter
    /\ fresh = NotRequested
    /\ reading = NoReading
    /\ building = "none"
    /\ held = "none"
    /\ flow = [NoFlow EXCEPT !.pc = "start"]
    /\ device = NoDevice
    /\ clientResult = <<>>

NextFlow ==
    \/ FlowStepUser
    \/ FlowValidateReturns

SpecFlow == InitFlow /\ [][NextFlow]_vars

----------------------------------------------------------------------------
(* The climate adapter and the coordinator against a device that answers   *)
(* every read with its state and applies every command it accepts          *)

\* the climate adapter reads and sets H/C group 0 only: devices without and
\* with that group
DeviceZoneCounts == {0, 1}
DeviceGroupCounts == {0, 1}
DeviceModes == {0, 1, 2}

Devices ==
    UNION {{[present |-> TRUE, system_on |-> on, zone_count |-> z, hc_count |-> n,
             modes |-> m] :
               on \in 0 .. 1, z \in DeviceZoneCounts, m \in [0 .. (n - 1) -> DeviceModes]} :
           n \in DeviceGroupCounts}

InitRoundTrip ==
    /\ configured = <<>>
    /\ zone_count_override = InitOverride(OptionOverride(configured))
    /\ data = NoData
    /\ last_exception = "none"
    /\ pc = "idle"
    /\ loc = InitLoc
    /\ startData = NoData
    /\ lastCall = NoCall
    /\ allOk = TRUE
    /\ issued = <<>>
    /\ outstanding = 0
    /\ setup = NotSetUp
    /\ entity = Entity("climate", 0, "")
    /\ adapter = IdleAdapter
    /\ fresh = NotRequested
    /\ reading = NoReading
    /\ building = "none"
    /\ held = "none"
    /\ flow = NoFlow
    /\ device \in Devices
    /\ clientResult = <<>>

NextRoundTrip ==
    \/ Next
    \/ AdapterCall
    \/ AdapterCommandReturns

SpecRoundTrip == InitRoundTrip /\ [][NextRoundTrip]_vars

----------------------------------------------------------------------------
(* Properties                                                              *)

CycleEnded == pc = "idle" /\ lastCall # NoCall
CycleFailed == CycleEnded /\ last_exception # "none"
Published == data # NoData

\* C1: when a refresh cycle ends by raising (a client call failed at a system,
\* group or zone fetch, or the cycle raised anything else), coordinator.data is
\* exactly the snapshot S0 that was retained when the cycle started.
C1_FailedCycleKeepsSnapshot == CycleFailed => data = startData

\* a cycle that got through the system and group fetches fails at a zone fetch
\* while a snapshot of an earlier cycle is retained
C1_Witness ==
    /\ CycleFailed
    /\ startData # NoData
    /\ lastCall.op = "zone_temperature"
    /\ lastCall.err = "MessanaApiError"

\* C4 (state part): while a cycle is suspended at a client call the visible
\* snapshot is the one retained when the cycle started, and a visible snapshot
\* carries system, hc_groups and zones together.
C4_NothingMidCycle ==
    /\ pc # "idle" => data = startData
    /\ Published => DOMAIN data = {"system", "hc_groups", "zones"}

\* C4 (step part): coordinator.data changes only in the step in which a cycle
\* returns, and then to the dict built from that cycle's own fetches.
C4_PublishStep ==
    data' # data =>
        /\ pc # "idle"
        /\ pc' = "idle"
        /\ last_exception' = "none"
        /\ data'.system.status = loc.system_on
        /\ data'.system.temp_unit = loc.temp_unit
        /\ data'.system.api_zone_count = loc.api_zone_count
        /\ data'.zones = loc.zones
        /\ \A g \in DOMAIN loc.hc_groups :
               g \in DOMAIN data'.hc_groups /\ data'.hc_groups[g] = loc.hc_groups[g]

\* C4: the snapshot visible to subscribers is absent or the complete result of
\* one successful cycle; nothing a cycle has built is visible before it returns.
C4_AtomicPublication == [](C4_NothingMidCycle) /\ [][C4_PublishStep]_vars

\* a cycle is suspended at a group fetch, holding a system status that differs
\* from the one of the visible snapshot
C4_Witness ==
    /\ pc = "hc_mode"
    /\ Published
    /\ loc.system_on # data.system.status

\* C5: a cycle whose every response was a successful, well-formed one ends in
\* success, whatever the effective zone count.
C5_AllOkCycleSucceeds == (CycleEnded /\ allOk) => last_exception = "none"

C7_EffectiveCountNonNegative == Published => data.system.effective_zone_count >= 0

ExpectedZoneCount(cfg, api) == IF cfg # <<>> /\ cfg[1] > 0 THEN cfg[1] ELSE api

C9_UnauthorizedAborts ==
    (lastCall.resp.kind = "http" /\ lastCall.resp.status = HTTP_UNAUTHORIZED) =>
        /\ lastCall.err = "MessanaAuthError"
        /\ pc = "idle"
        /\ last_exception = "UpdateFailed"
        /\ data = startData

\* a zone fetch is answered 401 while a snapshot is retained
C9_Witness ==
    /\ lastCall.op \in ZoneCalls
    /\ lastCall.resp.kind = "http"
    /\ lastCall.resp.status = HTTP_UNAUTHORIZED
    /\ startData # NoData
    /\ data = startData

IsSuccessStatus(s) == s >= 200 /\ s <= 299

\* C10: a 401 always ends a client read with MessanaAuthError; any other
\* non-2xx status, a transport failure, a timeout or a malformed JSON body
\* always ends it with the generic MessanaApiError; no read ends with any
\* other kind of error.
C10_TwoErrorKinds ==
    pc = "client_done" =>
        LET resp == lastCall.resp
            err == lastCall.err
        IN  /\ (resp.kind = "http" /\ resp.status = HTTP_UNAUTHORIZED)
                   => err = "MessanaAuthError"
            /\ (\/ resp.kind # "http"
                \/ resp.kind = "http" /\ resp.status # HTTP_UNAUTHORIZED
                                    /\ ~IsSuccessStatus(resp.status)
                \/ resp.kind = "http" /\ IsSuccessStatus(resp.status)
                                    /\ resp.body = Malformed)
                   => err = "MessanaApiError"
            /\ err \in {"none", "MessanaAuthError", "MessanaApiError"}

CountCalls == {"zone_count", "hc_group_count"}

\* texts that spell a number
NumeralTexts == {"0", "3", "41.2"}

\* a JSON body without a numeric count: no object, no count key, or a count
\* that is null or a text spelling no number
LacksCount(b) ==
    \/ b.t # "obj"
    \/ b.t = "obj" /\ b.o.count = Absent
    \/ b.t = "obj" /\ b.o.count.t = "null"
    \/ b.t = "obj" /\ b.o.count.t = "str" /\ b.o.count.s \notin NumeralTexts

ParsedOk(resp) == resp.kind = "http" /\ resp.status = 200 /\ resp.body # Malformed

\* C11: get_zone_count and get_hc_group_count, answered 200 with a body that has
\* no count or a non-numeric one, raise MessanaApiError instead of returning 0;
\* the cycle ends failed and coordinator.data stays what it was (no snapshot
\* with zero zones or groups is published in its place).
C11_CountIsHardError ==
    (lastCall.op \in CountCalls /\ ParsedOk(lastCall.resp)
                                /\ LacksCount(lastCall.resp.body)) =>
        /\ lastCall.err = "MessanaApiError"
        /\ pc = "idle"
        /\ last_exception = "UpdateFailed"
        /\ data = startData

\* the group count is answered 200 with {} while a snapshot is retained
C11_Witness ==
    /\ lastCall.op = "hc_group_count"
    /\ lastCall.resp = Http(200, JObj(EmptyObj))
    /\ CycleFailed
    /\ startData # NoData
    /\ data = startData

\* C12: a read other than the two counts, answered 200 with a body lacking its
\* field, yields the default (zone name "Zone {id}") and the cycle goes on; a
\* cycle whose HTTP calls all succeeded fails only at a count call whose body
\* has no numeric count.
C12_DefaultsKeepCycleGoing ==
    /\ (lastCall.op = "zone_name" /\ lastCall.resp = Http(200, JObj(EmptyObj))) =>
           /\ lastCall.err = "none"
           /\ pc = "zone_temperature"
           /\ loc.z.name = "Zone " \o NatText(loc.zid)
    /\ (CycleFailed /\ (lastCall.resp = NoResponse \/ ParsedOk(lastCall.resp))) =>
           /\ lastCall.op \in CountCalls
           /\ LacksCount(lastCall.resp.body)

\* C13: in a running cycle the first four calls issued are the four system
\* fetches and no system fetch is issued later; group fetches are issued in
\* increasing group index and zone fetches in increasing zone index, each call
\* once per index; every index is below the count the same cycle obtained.
C13_FetchOrder ==
    pc \in SystemCalls \cup GroupCalls \cup ZoneCalls =>
        LET n == Len(issued)
        IN  /\ \A j \in 1 .. n :
                   /\ issued[j].op \in SystemCalls => j <= 4
                   /\ issued[j].op \notin SystemCalls =>
                          /\ j > 4
                          /\ {issued[k].op : k \in 1 .. 4} = SystemCalls
                   /\ issued[j].op \in GroupCalls =>
                          issued[j].idx \in 0 .. (loc.hc_count - 1)
                   /\ issued[j].op \in ZoneCalls =>
                          issued[j].idx \in 0 .. (loc.zone_count - 1)
            /\ \A i \in 1 .. n : \A j \in (i + 1) .. n :
                   /\ issued[i] # issued[j]
                   /\ (issued[i].op \in GroupCalls /\ issued[j].op \in GroupCalls) =>
                          issued[i].idx <= issued[j].idx
                   /\ (issued[i].op \in ZoneCalls /\ issued[j].op \in ZoneCalls) =>
                          issued[i].idx <= issued[j].idx

\* a cycle has fetched groups 0 and 1 and is in the zone loop
C13_Witness ==
    /\ pc = "zone_temperature"
    /\ loc.hc_count = 2
    /\ Len(issued) = 10
    /\ issued[7].idx = 1

\* C14: at most one client request of a cycle is outstanding, and a request is
\* issued only when the one before it has returned.
C14_OneOutstanding ==
    /\ outstanding <= 1
    /\ pc = "idle" => outstanding = 0
    /\ pc \in SystemCalls \cup GroupCalls \cup ZoneCalls =>
           /\ outstanding = 1
           /\ issued[Len(issued)].op = pc
           /\ Len(issued) >= 2 =>
                  /\ lastCall.op = issued[Len(issued) - 1].op
                  /\ lastCall.err = "none"

\* a cycle is suspended at its sixth call
C14_Witness ==
    /\ pc = "hc_executive_season"
    /\ Len(issued) = 6
    /\ outstanding = 1

\* C15 (step): a cycle that raises leaves the coordinator idle with the failure
\* recorded and no request outstanding; a cycle that started after a failed one
\* and whose every call the device answered well ends in success with a
\* snapshot retained.
C15_RecoveryStep ==
    /\ (pc # "idle" /\ lastCall'.err # "none") =>
           /\ pc' = "idle"
           /\ last_exception' # "none"
           /\ outstanding' = 0
    /\ (pc # "idle" /\ pc' = "idle" /\ last_exception # "none" /\ allOk') =>
           /\ last_exception' = "none"
           /\ data' # NoData

\* C15: after a failed background cycle the coordinator is idle with the failure
\* recorded and retries nothing by itself; a later cycle the device answers in
\* full replaces the snapshot and clears the failure.
C15_FailureThenRecovery == [][C15_RecoveryStep]_vars

\* C18: client and coordinator are stored, and platforms set up, only when the
\* first refresh has succeeded; a failed first refresh leaves nothing stored and
\* no platform set up.
C18_SetupNeedsFirstRefresh ==
    /\ (setup.stored \/ setup.platforms # {}) => (setup.pc = "loaded" /\ data # NoData)
    /\ setup.pc = "first_refresh" => (~setup.stored /\ setup.platforms = {})
    /\ (CycleFailed /\ data = NoData) =>
           (setup.pc = "not_ready" /\ ~setup.stored /\ setup.platforms = {})

\* the first refresh failed at a group fetch
C18_Witness ==
    /\ setup.pc = "not_ready"
    /\ lastCall.op = "hc_mode"
    /\ lastCall.err = "MessanaApiError"
    /\ ~setup.stored

\* C16 (step): when a cycle returns and publishes while a refresh requested
\* after a command is pending, no read of that cycle is older than the command.
C16_PublishStep ==
    (pc # "idle" /\ pc' = "idle" /\ last_exception' = "none" /\ fresh.requested) =>
        ~fresh.stale

\* C16: after an adapter's command succeeded and it requested a refresh, the
\* next snapshot published is built from reads that all came after the command,
\* also when the request arrives while a cycle is running.
C16_FreshAfterCommand == [][C16_PublishStep]_vars

UserActionEnded == adapter.pc = "idle" /\ adapter.action # "none"

IndexMissing ==
    \/ data = NoData
    \/ data # NoData /\ entity.kind \in {"climate", "sensor"}
                     /\ entity.idx \notin DOMAIN data.zones
    \/ data # NoData /\ entity.kind = "select"
                     /\ entity.idx \notin DOMAIN data.hc_groups

SentinelReads == {"zone_temperature", "zone_dewpoint", "zone_setpoint"}

\* a client read has returned for a 200 whose body is an object carrying a
\* number under "value"
ReadOfNumber ==
    /\ pc = "client_done"
    /\ lastCall.resp.kind = "http"
    /\ lastCall.resp.status = 200
    /\ lastCall.resp.body.t = "obj"
    /\ lastCall.resp.body.o.value.t = "num"

\* C21: get_zone_temperature, get_zone_dewpoint and get_zone_setpoint return
\* "no value" for every raw value <= -3000 (-3276.8, and -3000 itself) and the
\* raw value itself, as a number, for every raw value > -3000 (-2999.9, 0);
\* get_zone_humidity applies no sentinel and returns -3276.8 as a number.
\* (Values are in tenths: -3000 is -30000.)
C21_SentinelRule ==
    ReadOfNumber =>
        LET raw == lastCall.resp.body.o.value.n10
        IN  /\ (lastCall.op \in SentinelReads /\ raw <= -30000) =>
                   (lastCall.err = "none" /\ clientResult = <<Null>>)
            /\ (lastCall.op \in SentinelReads /\ raw > -30000) =>
                   /\ lastCall.err = "none"
                   /\ clientResult # <<Null>>
                   /\ clientResult[1].t = "num"
                   /\ clientResult[1].n10 = raw
            /\ lastCall.op = "zone_humidity" =>
                   /\ lastCall.err = "none"
                   /\ clientResult[1].t = "num"
                   /\ clientResult[1].n10 = raw

\* get_zone_setpoint, answered exactly -3000.0, has returned "no value"
C21_Witness ==
    /\ pc = "client_done"
    /\ lastCall.op = "zone_setpoint"
    /\ lastCall.resp = Http(200, Obj1("value", JFloat(-30000)))
    /\ clientResult = <<Null>>

\* get_zone_humidity has returned for a 200 whose body is an object
HumidityRead ==
    /\ pc = "client_done"
    /\ lastCall.op = "zone_humidity"
    /\ lastCall.resp.kind = "http"
    /\ lastCall.resp.status = 200
    /\ lastCall.resp.body.t = "obj"

\* C22: get_zone_humidity reads the `value` field whenever the body has a
\* `value` key (also when `values` is there too), reads `values` only when the
\* `value` key is absent, and returns "no value" when neither key is present.
C22_HumidityValueOrValues ==
    HumidityRead =>
        LET o == lastCall.resp.body.o
        IN  /\ lastCall.err = "none"
            /\ o.value # Absent => clientResult = <<FloatOrNone(o.value)>>
            /\ (o.value = Absent /\ o.values # Absent) =>
                   clientResult = <<FloatOrNone(o.values)>>
            /\ (o.value = Absent /\ o.values = Absent) => clientResult = <<Null>>

\* a body with value 41.2 and values 50.0 has been read as 41.2
C22_Witness ==
    /\ HumidityRead
    /\ lastCall.resp.body.o.value = JFloat(412)
    /\ lastCall.resp.body.o.values = JFloat(500)
    /\ clientResult = <<JFloat(412)>>

\* the keys 0 .. n-1
Dense(n) == 0 .. (n - 1)

\* C23 (state part): the mapping a cycle fills holds the keys below the group
\* it is fetching, and all keys below the fetched count once the group loop is
\* over.
C23_GroupsFilledInOrder ==
    /\ pc \in {"zone_count", "hc_group_count"} => DOMAIN loc.hc_groups = {}
    /\ pc \in GroupCalls =>
           /\ loc.gid \in Dense(loc.hc_count)
           /\ DOMAIN loc.hc_groups = Dense(loc.gid)
    /\ pc \in ZoneCalls => DOMAIN loc.hc_groups = Dense(loc.hc_count)

\* C23 (step part): the entry of group gid is inserted when its two fetches
\* have returned and holds the mode and the executive season they returned;
\* no entry present is changed; the published mapping is the one the cycle
\* filled, with the keys 0 .. hc_group_count - 1 of the count it fetched.
C23_GroupStep ==
    /\ (pc = "hc_mode" /\ lastCall'.err = "none") =>
           /\ loc'.mode = get_hc_mode(lastCall'.resp).val
           /\ loc'.gid = loc.gid
           /\ loc'.hc_groups = loc.hc_groups
    /\ (pc = "hc_executive_season" /\ lastCall'.err = "none") =>
           LET filled == IF pc' = "idle" THEN data'.hc_groups ELSE loc'.hc_groups
           IN  /\ DOMAIN filled = DOMAIN loc.hc_groups \cup {loc.gid}
               /\ loc.gid \notin DOMAIN loc.hc_groups
               /\ filled[loc.gid] =
                      [mode |-> loc.mode,
                       executive_season |-> get_hc_executive_season(lastCall'.resp).val]
               /\ \A g \in DOMAIN loc.hc_groups : filled[g] = loc.hc_groups[g]
    /\ (pc \in ZoneCalls /\ pc' # "idle") => loc'.hc_groups = loc.hc_groups
    /\ (pc # "idle" /\ pc' = "idle" /\ last_exception' = "none") =>
           LET hc_group_count ==
                   IF pc = "hc_group_count" THEN get_hc_group_count(lastCall'.resp).val
                   ELSE loc.hc_count
           IN  /\ DOMAIN data'.hc_groups = Dense(hc_group_count)
               /\ pc # "hc_executive_season" => data'.hc_groups = loc.hc_groups
    /\ data' # data => (pc # "idle" /\ pc' = "idle" /\ last_exception' = "none")

\* C23: every published snapshot's hc_groups has exactly the keys
\* 0 .. hc_group_count - 1 of the group count fetched in the same cycle,
\* inserted in increasing index order, each entry holding the mode and the
\* executive season fetched for that index.
C23_GroupsDense == [](C23_GroupsFilledInOrder) /\ [][C23_GroupStep]_vars

\* a snapshot with the groups 0 and 1 has been published, group 0 in mode 0
\* and group 1 in mode 1
C23_Witness ==
    /\ Published
    /\ DOMAIN data.hc_groups = {0, 1}
    /\ data.hc_groups[0].mode = 0
    /\ data.hc_groups[1].mode = 1
    /\ data.hc_groups[1].executive_season = 1

\* C24: when the validation of the user step fails, the step shows the form
\* again with the error classified: "auth" for MessanaAuthError,
\* "cannot_connect" for any other MessanaApiError, "unknown" for anything else.
C24_ClassifiedForm ==
    (flow.pc = "done" /\ flow.user_input /\ lastCall.err # "none") =>
        /\ flow.raised = "none"
        /\ flow.result = "form"
        /\ lastCall.err = "MessanaAuthError" => flow.errors = "auth"
        /\ lastCall.err = "MessanaApiError" => flow.errors = "cannot_connect"
        /\ lastCall.err \notin {"MessanaAuthError", "MessanaApiError"} =>
               flow.errors = "unknown"

\* the commands the running (or last) user action awaits in turn
ActionCommands == Handler(entity, UserAction(adapter.action, adapter.arg)).cmds

\* C25 (state part): a user action that ended with an error has requested no
\* refresh; one that requested a refresh has had every one of its commands
\* returned without error.
C25_NoRefreshAfterError ==
    /\ adapter.err # "none" => ~adapter.refreshed
    /\ adapter.pc = "command" => ~adapter.refreshed
    /\ adapter.refreshed =>
           /\ adapter.pc = "idle"
           /\ adapter.err = "none"
           /\ adapter.sent = Len(ActionCommands)

\* C25 (step part): a refresh is requested only in the step in which the last
\* command of the action returns without error, and no step of a user action
\* touches the retained snapshot.
C25_RefreshStep ==
    /\ ((adapter'.refreshed /\ ~adapter.refreshed)
        \/ (fresh'.requested /\ ~fresh.requested)) =>
           /\ adapter.pc = "command"
           /\ Len(adapter.queue) = 1
           /\ adapter'.err = "none"
    /\ adapter' # adapter => (data' = data /\ last_exception' = last_exception)

\* C25: an adapter requests a refresh only after every client command of the
\* action has returned successfully; when a command raises, no refresh is
\* requested and the retained snapshot is unchanged, also when an earlier
\* command of the same action had already been applied.
C25_RefreshOnlyAfterSuccess == [](C25_NoRefreshAfterError) /\ [][C25_RefreshStep]_vars

\* set HVAC mode HEAT: set_system_status(True) returned, set_hc_mode raised,
\* and the action ended without a refresh request
C25_Witness ==
    /\ UserActionEnded
    /\ adapter.action = "async_set_hvac_mode"
    /\ adapter.arg = "heat"
    /\ adapter.sent = 2
    /\ adapter.err = "MessanaApiError"
    /\ ~adapter.refreshed
    /\ ~fresh.requested

StatusReads == {"system_status", "zone_status", "zone_thermal_status"}

\* a client read has ended for a 2xx response whose body is a bare number or
\* a bare string
BareBodyRead ==
    /\ pc = "client_done"
    /\ lastCall.resp.kind = "http"
    /\ IsSuccessStatus(lastCall.resp.status)
    /\ lastCall.resp.body.t \in {"num", "str"}

\* the same response with the body wrapped into the object {value: body}
Wrapped(resp) == Http(resp.status, Obj1("value", resp.body))

\* the outcome of the read the client has ended
Outcome == [err |-> lastCall.err, val |-> clientResult]

OutcomeOf(r) == [err |-> r.err, val |-> IF r.err = "none" THEN <<r.val>> ELSE <<>>]

\* C26: a successful response whose body is a bare number or string is read as
\* the object {value: body}: a bare number is the reading of the getters that
\* extract `value` (temperature, humidity, dewpoint, setpoint, H/C mode,
\* executive season, temperature unit), the two count getters raise
\* MessanaApiError, and the getters that extract `status` return 0.
C26_BareBodyNormalised ==
    BareBodyRead =>
        LET b == lastCall.resp.body
        IN  /\ Outcome = OutcomeOf(Read(lastCall.op, loc.zid, Wrapped(lastCall.resp)))
            /\ lastCall.op \in CountCalls => lastCall.err = "MessanaApiError"
            /\ lastCall.op \in StatusReads => Outcome = OutcomeOf(Return(0))
            /\ (b.t = "num" /\ lastCall.op = "zone_humidity") =>
                   Outcome = OutcomeOf(Return(JFloat(b.n10)))
            /\ (b.t = "num" /\ lastCall.op \in SentinelReads /\ b.n10 > -30000) =>
                   Outcome = OutcomeOf(Return(JFloat(b.n10)))
            /\ (b.t = "num" /\ lastCall.op \in {"hc_mode", "hc_executive_season"}) =>
                   Outcome = OutcomeOf(Return(Trunc10(b.n10)))
            /\ (b.t = "num" /\ lastCall.op = "temp_unit") =>
                   Outcome = OutcomeOf(Return(NumText(b)))

\* get_zone_temperature, answered 200 with the bare number 21.5, returned 21.5
C26_Witness ==
    /\ pc = "client_done"
    /\ lastCall.op = "zone_temperature"
    /\ lastCall.resp = Http(200, JFloat(215))
    /\ clientResult = <<JFloat(215)>>

\* the retained snapshot shows the device as it is now: its power, its group
\* count and the mode of each of its groups
SnapshotShowsDevice ==
    /\ Published
    /\ data.system.status = device.system_on
    /\ DOMAIN data.hc_groups = DOMAIN device.modes
    /\ \A g \in DOMAIN device.modes : data.hc_groups[g].mode = device.modes[g]

\* the last user action was async_set_hvac_mode and every command of it was
\* accepted
HvacModeSet ==
    /\ UserActionEnded
    /\ adapter.action = "async_set_hvac_mode"
    /\ adapter.err = "none"
    /\ adapter.refreshed

====
